---- MODULE Spec2Model ----
(***************************************************************************)
(* A model of priority_config.PriorityConfig: a resolver that looks a key  *)
(* up in a direct value, a configuration mapping, the process environment  *)
(* and a default, in that order, converts environment strings to a target  *)
(* type, and records every resolution in a log, masking sensitive values.  *)
(*                                                                         *)
(* Python strings are sequences of one-character strings, so that upper(), *)
(* substring search, slicing, split() and int()/float() parsing are        *)
(* computed rather than assumed.  Python values are records [t, v] whose t *)
(* is the name of the value's type.                                        *)
(***************************************************************************)
EXTENDS Integers, Sequences, FiniteSets, TLC

VARIABLES config_dict, env_prefix, auto_uppercase, resolution_log,
          environ, call, ret, calls, failures

vars == <<config_dict, env_prefix, auto_uppercase, resolution_log,
          environ, call, ret, calls, failures>>

----------------------------------------------------------------------------
(* Bounds *)

\* resolve calls explored since construction or the last clear_log (Spec)
MaxCalls == 1

\* resolve calls explored since construction or the last clear_log (SpecLog)
MaxHist == 3

\* longest generated string handed to _mask_value (SpecMask)
MaxStrLen == 6

\* longest generated key handed to _is_sensitive (SpecSensitive)
MaxKeyLen == 4

----------------------------------------------------------------------------
(* Characters and strings *)

LowerChars ==
  <<"a","b","c","d","e","f","g","h","i","j","k","l","m",
    "n","o","p","q","r","s","t","u","v","w","x","y","z">>

UpperChars ==
  <<"A","B","C","D","E","F","G","H","I","J","K","L","M",
    "N","O","P","Q","R","S","T","U","V","W","X","Y","Z">>

DigitChars == <<"0","1","2","3","4","5","6","7","8","9">>

Whitespace == {" ", "\t", "\n", "\r"}

IndexIn(c, seq) == CHOOSE i \in 1..Len(seq) : seq[i] = c

IsIn(c, seq) == \E i \in 1..Len(seq) : seq[i] = c

\* str.upper() on one character (ASCII letters change, the rest stay)
UpperChar(c) == IF IsIn(c, LowerChars) THEN UpperChars[IndexIn(c, LowerChars)] ELSE c

\* str.lower() on one character
LowerChar(c) == IF IsIn(c, UpperChars) THEN LowerChars[IndexIn(c, UpperChars)] ELSE c

\* str.upper()
Upper(s) == [i \in 1..Len(s) |-> UpperChar(s[i])]

\* str.lower()
Lower(s) == [i \in 1..Len(s) |-> LowerChar(s[i])]

\* expr in s, for strings: expr occurs in s as a contiguous run
Contains(s, expr) ==
  \E i \in 1..(Len(s) - Len(expr) + 1) : SubSeq(s, i, i + Len(expr) - 1) = expr

\* "*" * n
Stars(n) == [i \in 1..n |-> "*"]

\* all strings over the characters cs of length at most n
RECURSIVE StringsUpTo(_, _)
StringsUpTo(cs, n) ==
  IF n = 0 THEN {<<>>}
  ELSE LET shorter == StringsUpTo(cs, n - 1)
       IN  shorter \cup {Append(s, c) : s \in shorter, c \in cs}

----------------------------------------------------------------------------
(* Python values *)

NoneV == [t |-> "NoneType", v |-> <<>>]

StrV(s) == [t |-> "str", v |-> s]

IntV(n) == [t |-> "int", v |-> n]

BoolV(b) == [t |-> "bool", v |-> b]

ListV(l) == [t |-> "list", v |-> l]

\* a finite float is (-1)^neg * m * 10^e with m not divisible by 10
FloatV(k, neg, m, e) == [t |-> "float", v |-> [k |-> k, neg |-> neg, m |-> m, e |-> e]]

\* an exception leaving the call
Raise(exc) == [t |-> "raise", v |-> exc]

\* truthiness of a value, as tested by `if env_val:`
Truthy(x) ==
  CASE x.t = "NoneType" -> FALSE
    [] x.t = "str"      -> Len(x.v) > 0
    [] x.t = "list"     -> Len(x.v) > 0
    [] x.t = "int"      -> x.v # 0
    [] x.t = "bool"     -> x.v
    [] x.t = "float"    -> ~(x.v.k = "fin" /\ x.v.m = 0)
    [] OTHER            -> TRUE

----------------------------------------------------------------------------
(* str(), repr() and the string form of numbers *)

RECURSIVE NatToStr(_)
NatToStr(n) ==
  IF n < 10 THEN <<DigitChars[n + 1]>>
  ELSE Append(NatToStr(n \div 10), DigitChars[(n % 10) + 1])

IntToStr(n) == IF n < 0 THEN <<"-">> \o NatToStr(0 - n) ELSE NatToStr(n)

Zeros(n) == [i \in 1..n |-> "0"]

\* repr() of a float: positional notation while the decimal point lies
\* within (-4, 16] of the first digit, exponent notation otherwise
FloatToStr(f) ==
  LET sign  == IF f.neg THEN <<"-">> ELSE <<>>
      D     == NatToStr(f.m)
      n     == Len(D)
      decpt == n + f.e
      ex    == decpt - 1
      exd   == NatToStr(IF ex < 0 THEN 0 - ex ELSE ex)
  IN  CASE f.k = "nan" -> <<"n","a","n">>
        [] f.k = "inf" -> sign \o <<"i","n","f">>
        [] OTHER ->
             sign \o
             (IF decpt > -4 /\ decpt <= 16
              THEN IF decpt <= 0 THEN <<"0", ".">> \o Zeros(0 - decpt) \o D
                   ELSE IF decpt >= n THEN D \o Zeros(decpt - n) \o <<".", "0">>
                   ELSE SubSeq(D, 1, decpt) \o <<".">> \o SubSeq(D, decpt + 1, n)
              ELSE <<D[1]>> \o (IF n > 1 THEN <<".">> \o SubSeq(D, 2, n) ELSE <<>>)
                   \o <<"e">> \o (IF ex < 0 THEN <<"-">> ELSE <<"+">>)
                   \o (IF Len(exd) < 2 THEN <<"0">> \o exd ELSE exd))

\* sep.join(parts)
RECURSIVE Join(_, _)
Join(sep, parts) ==
  IF Len(parts) = 0 THEN <<>>
  ELSE IF Len(parts) = 1 THEN parts[1]
  ELSE parts[1] \o sep \o Join(sep, Tail(parts))

\* str(value) and repr(value); a string's repr is the string in single
\* quotes (the strings of this model hold no quote, backslash or control
\* character, which repr would escape)
RECURSIVE Str(_)
RECURSIVE Repr(_)
Str(x) ==
  CASE x.t = "str"      -> x.v
    [] x.t = "int"      -> IntToStr(x.v)
    [] x.t = "bool"     -> IF x.v THEN <<"T","r","u","e">> ELSE <<"F","a","l","s","e">>
    [] x.t = "float"    -> FloatToStr(x.v)
    [] x.t = "NoneType" -> <<"N","o","n","e">>
    [] x.t = "list"     ->
         <<"[">> \o Join(<<",", " ">>, [i \in 1..Len(x.v) |-> Repr(x.v[i])]) \o <<"]">>

Repr(x) == IF x.t = "str" THEN <<"'">> \o x.v \o <<"'">> ELSE Str(x)

----------------------------------------------------------------------------
(* int(), float(), str.split(",") *)

RECURSIVE LStrip(_)
LStrip(s) == IF Len(s) > 0 /\ s[1] \in Whitespace THEN LStrip(Tail(s)) ELSE s

RECURSIVE RStrip(_)
RStrip(s) ==
  IF Len(s) > 0 /\ s[Len(s)] \in Whitespace THEN RStrip(SubSeq(s, 1, Len(s) - 1)) ELSE s

Strip(s) == RStrip(LStrip(s))

\* digits, with single underscores allowed between two digits
IsDigitPart(s) ==
  /\ Len(s) > 0
  /\ \A i \in 1..Len(s) : IsIn(s[i], DigitChars) \/ s[i] = "_"
  /\ s[1] # "_" /\ s[Len(s)] # "_"
  /\ \A i \in 1..(Len(s) - 1) : ~(s[i] = "_" /\ s[i + 1] = "_")

\* the digits of a digit part, underscores dropped
RECURSIVE OnlyDigits(_)
OnlyDigits(s) ==
  IF Len(s) = 0 THEN <<>>
  ELSE IF s[1] = "_" THEN OnlyDigits(Tail(s))
  ELSE <<s[1]>> \o OnlyDigits(Tail(s))

RECURSIVE DigitsValue(_)
DigitsValue(d) ==
  IF Len(d) = 0 THEN 0
  ELSE 10 * DigitsValue(SubSeq(d, 1, Len(d) - 1)) + (IndexIn(d[Len(d)], DigitChars) - 1)

HasSign(s) == Len(s) > 0 /\ s[1] \in {"+", "-"}

Unsigned(s) == IF HasSign(s) THEN Tail(s) ELSE s

\* int(value) for a string: base-10 literal, ValueError otherwise
ParseInt(s) ==
  LET t    == Strip(s)
      body == Unsigned(t)
      n    == DigitsValue(OnlyDigits(body))
  IN  IF IsDigitPart(body)
      THEN IntV(IF HasSign(t) /\ t[1] = "-" THEN 0 - n ELSE n)
      ELSE Raise("ValueError")

\* position of the first character of s that is in cs, 0 when there is none
FirstOf(s, cs) ==
  IF \E i \in 1..Len(s) : s[i] \in cs
  THEN CHOOSE i \in 1..Len(s) : s[i] \in cs /\ \A j \in 1..(i - 1) : s[j] \notin cs
  ELSE 0

\* m * 10^e with the factors of ten moved out of m
RECURSIVE Normalize(_, _)
Normalize(m, e) ==
  IF m = 0 THEN <<0, 0>>
  ELSE IF m % 10 = 0 THEN Normalize(m \div 10, e + 1)
  ELSE <<m, e>>

\* float(value) for a string: decimal literal with optional fraction and
\* exponent, or inf/infinity/nan, ValueError otherwise.  Literals stay short
\* enough that the decimal value is the float (no rounding, no overflow).
ParseFloat(s) ==
  LET t     == Strip(s)
      neg   == HasSign(t) /\ t[1] = "-"
      body  == Unsigned(t)
      ePos  == FirstOf(body, {"e", "E"})
      mant  == IF ePos = 0 THEN body ELSE SubSeq(body, 1, ePos - 1)
      expo  == IF ePos = 0 THEN <<>> ELSE SubSeq(body, ePos + 1, Len(body))
      expOk == ePos = 0 \/ IsDigitPart(Unsigned(expo))
      expN  == IF ePos = 0 \/ ~expOk THEN 0
               ELSE LET n == DigitsValue(OnlyDigits(Unsigned(expo)))
                    IN  IF HasSign(expo) /\ expo[1] = "-" THEN 0 - n ELSE n
      dot   == FirstOf(mant, {"."})
      ip    == IF dot = 0 THEN mant ELSE SubSeq(mant, 1, dot - 1)
      fp    == IF dot = 0 THEN <<>> ELSE SubSeq(mant, dot + 1, Len(mant))
      mantOk == IF dot = 0 THEN IsDigitPart(ip)
                ELSE /\ Len(ip) = 0 \/ IsDigitPart(ip)
                     /\ Len(fp) = 0 \/ IsDigitPart(fp)
                     /\ Len(ip) + Len(fp) > 0
      fd    == OnlyDigits(fp)
      norm  == Normalize(DigitsValue(OnlyDigits(ip) \o fd), expN - Len(fd))
  IN  IF Lower(body) \in {<<"i","n","f">>, <<"i","n","f","i","n","i","t","y">>}
      THEN FloatV("inf", neg, 0, 0)
      ELSE IF Lower(body) = <<"n","a","n">>
      THEN FloatV("nan", FALSE, 0, 0)
      ELSE IF mantOk /\ expOk
      THEN FloatV("fin", neg, norm[1], norm[2])
      ELSE Raise("ValueError")

\* variant: empty pieces are dropped
RECURSIVE SplitSkipEmpty(_, _)
SplitSkipEmpty(s, sep) ==
  LET i == FirstOf(s, {sep})
  IN  IF i = 0 THEN (IF Len(s) = 0 THEN <<>> ELSE <<s>>)
      ELSE (IF i = 1 THEN <<>> ELSE <<SubSeq(s, 1, i - 1)>>)
             \o SplitSkipEmpty(SubSeq(s, i + 1, Len(s)), sep)

\* value.split(sep) for a one-character separator
RECURSIVE Split(_, _)
Split(s, sep) ==
  LET i == FirstOf(s, {sep})
  IN  IF i = 0 THEN <<s>>
      ELSE <<SubSeq(s, 1, i - 1)>> \o Split(SubSeq(s, i + 1, Len(s)), sep)

----------------------------------------------------------------------------
(* String literals of the program and of the explored inputs *)

s_direct == <<"d","i","r","e","c","t">>

s_config == <<"c","o","n","f","i","g">>

s_default == <<"d","e","f","a","u","l","t">>

s_env_colon == <<"e","n","v",":">>

s_mask4 == <<"*","*","*","*">>

\* keys
k_host == <<"h","o","s","t">>

k_HOST == <<"H","O","S","T">>

k_secret == <<"s","e","c","r","e","t">>

k_timeout == <<"t","i","m","e","o","u","t">>

\* prefixes
p_MYAPP == <<"M","Y","A","P","P","_">>

p_app == <<"a","p","p","_">>

\* values
v_localhost == <<"l","o","c","a","l","h","o","s","t">>

v_secret123 == <<"s","e","c","r","e","t","1","2","3">>

v_topsecret123 == <<"t","o","p","s","e","c","r","e","t","1","2","3">>

v_60 == <<"6","0">>

v_a_b == <<"a",",","b">>

v_upper == <<"u","p","p","e","r">>

v_lower == <<"l","o","w","e","r">>

v_3_14 == <<"3",".","1","4">>

v_example == <<"e","x","a","m","p","l","e">>

v_Yes == <<"Y","e","s">>

v_true == <<"t","r","u","e">>

----------------------------------------------------------------------------
(* class PriorityConfig: helpers *)

SENSITIVE_EXPRESSIONS ==
  << <<"A","P","I">>,
     <<"P","A","S","S","W","O","R","D">>,
     <<"S","E","C","R","E","T">>,
     <<"T","O","K","E","N">>,
     <<"K","E","Y">>,
     <<"P","A","S","S">>,
     <<"A","U","T","H">>,
     <<"C","R","E","D","E","N","T","I","A","L">>,
     <<"P","R","I","V","A","T","E">>,
     <<"C","E","R","T">> >>

\* the target types explored; "dict" stands for a type _convert_type does
\* not know
Types == {"int", "float", "bool", "list", "str", "dict"}

\* type.__name__
TypeName(type) ==
  CASE type = "int"   -> <<"i","n","t">>
    [] type = "float" -> <<"f","l","o","a","t">>
    [] type = "bool"  -> <<"b","o","o","l">>
    [] type = "list"  -> <<"l","i","s","t">>
    [] type = "str"   -> <<"s","t","r">>
    [] type = "dict"  -> <<"d","i","c","t">>

\* variant: the key is not upper-cased before the search
is_sensitive_as_given(key) ==
  \E i \in 1..Len(SENSITIVE_EXPRESSIONS) : Contains(key, SENSITIVE_EXPRESSIONS[i])

_is_sensitive(key) ==
  LET key_upper == Upper(key)
  IN  \E i \in 1..Len(SENSITIVE_EXPRESSIONS) :
        Contains(key_upper, SENSITIVE_EXPRESSIONS[i])

\* variant: only strings shorter than 4 get the fixed mask
mask_value_below_four(value) ==
  IF value = NoneV THEN NoneV
  ELSE LET value_str == Str(value)
           n         == Len(value_str)
       IN  IF n < 4 THEN StrV(s_mask4)
           ELSE StrV(SubSeq(value_str, 1, 2) \o Stars(n - 4) \o SubSeq(value_str, n - 1, n))

_mask_value(value) ==
  IF value = NoneV THEN NoneV
  ELSE LET value_str == Str(value)
           n         == Len(value_str)
       IN  IF n <= 4 THEN StrV(s_mask4)
           ELSE StrV(SubSeq(value_str, 1, 2) \o Stars(n - 4) \o SubSeq(value_str, n - 1, n))

\* variant: the words for true are matched in lower case only
convert_type_bool_exact(value, type) ==
  CASE type = "int"   -> ParseInt(value.v)
    [] type = "float" -> ParseFloat(value.v)
    [] type = "bool"  ->
         BoolV(value.v \in {<<"t","r","u","e">>, <<"1">>, <<"y","e","s">>})
    [] type = "list"  ->
         LET parts == Split(value.v, ",")
         IN  ListV([i \in 1..Len(parts) |-> StrV(parts[i])])
    [] OTHER          -> value

\* variant: a type other than the five known ones is an error
convert_type_strict(value, type) ==
  CASE type = "int"   -> ParseInt(value.v)
    [] type = "float" -> ParseFloat(value.v)
    [] type = "bool"  ->
         BoolV(Lower(value.v) \in {<<"t","r","u","e">>, <<"1">>, <<"y","e","s">>})
    [] type = "list"  ->
         LET parts == Split(value.v, ",")
         IN  ListV([i \in 1..Len(parts) |-> StrV(parts[i])])
    [] type = "str"   -> value
    [] OTHER          -> Raise("TypeError")

\* variant: a string int() or float() rejects is passed through
convert_type_lenient(value, type) ==
  CASE type = "int"   -> IF ParseInt(value.v).t = "raise" THEN value ELSE ParseInt(value.v)
    [] type = "float" -> IF ParseFloat(value.v).t = "raise" THEN value ELSE ParseFloat(value.v)
    [] type = "bool"  ->
         BoolV(Lower(value.v) \in {<<"t","r","u","e">>, <<"1">>, <<"y","e","s">>})
    [] type = "list"  ->
         LET parts == Split(value.v, ",")
         IN  ListV([i \in 1..Len(parts) |-> StrV(parts[i])])
    [] OTHER          -> value

\* value is the string read from the environment
_convert_type(value, type) ==
  CASE type = "int"   -> ParseInt(value.v)
    [] type = "float" -> ParseFloat(value.v)
    [] type = "bool"  ->
         BoolV(Lower(value.v) \in {<<"t","r","u","e">>, <<"1">>, <<"y","e","s">>})
    [] type = "list"  ->
         LET parts == Split(value.v, ",")
         IN  ListV([i \in 1..Len(parts) |-> StrV(parts[i])])
    [] OTHER          -> value

\* os.getenv(name): the variable's string, None when it is not set
getenv(name) == IF name \in DOMAIN environ THEN StrV(environ[name]) ELSE NoneV

\* variant: the prefix is upper-cased together with the key
env_key_upper_all(key) ==
  IF auto_uppercase THEN Upper(env_prefix \o key) ELSE env_prefix \o key

\* f"{self.env_prefix}{key.upper() if self.auto_uppercase else key}"
env_key(key) == env_prefix \o (IF auto_uppercase THEN Upper(key) ELSE key)

\* variant: `if direct_val:` instead of `if direct_val is not None:`
PrecedenceTruthyDirect(key, direct_val, default, type) ==
  IF Truthy(direct_val)
  THEN [source |-> s_direct, final_value |-> direct_val]
  ELSE IF key \in DOMAIN config_dict
  THEN [source |-> s_config, final_value |-> config_dict[key]]
  ELSE LET env_val == getenv(env_key(key))
       IN  IF Truthy(env_val)
           THEN [source |-> s_env_colon \o env_key(key),
                 final_value |-> _convert_type(env_val, type)]
           ELSE [source |-> s_default, final_value |-> default]

\* variant: `elif self.config_dict.get(key) is not None:` instead of
\* `elif key in self.config_dict:`
PrecedenceConfigNotNone(key, direct_val, default, type) ==
  IF direct_val # NoneV
  THEN [source |-> s_direct, final_value |-> direct_val]
  ELSE IF key \in DOMAIN config_dict /\ config_dict[key] # NoneV
  THEN [source |-> s_config, final_value |-> config_dict[key]]
  ELSE LET env_val == getenv(env_key(key))
       IN  IF Truthy(env_val)
           THEN [source |-> s_env_colon \o env_key(key),
                 final_value |-> _convert_type(env_val, type)]
           ELSE [source |-> s_default, final_value |-> default]

\* variant: `if env_val is not None:` instead of `if env_val:`
PrecedenceEnvNotNone(key, direct_val, default, type) ==
  IF direct_val # NoneV
  THEN [source |-> s_direct, final_value |-> direct_val]
  ELSE IF key \in DOMAIN config_dict
  THEN [source |-> s_config, final_value |-> config_dict[key]]
  ELSE LET env_val == getenv(env_key(key))
       IN  IF env_val # NoneV
           THEN [source |-> s_env_colon \o env_key(key),
                 final_value |-> _convert_type(env_val, type)]
           ELSE [source |-> s_default, final_value |-> default]

\* variant: the mapping is consulted before the direct value
PrecedenceConfigFirst(key, direct_val, default, type) ==
  IF key \in DOMAIN config_dict
  THEN [source |-> s_config, final_value |-> config_dict[key]]
  ELSE IF direct_val # NoneV
  THEN [source |-> s_direct, final_value |-> direct_val]
  ELSE LET env_val == getenv(env_key(key))
       IN  IF Truthy(env_val)
           THEN [source |-> s_env_colon \o env_key(key),
                 final_value |-> _convert_type(env_val, type)]
           ELSE [source |-> s_default, final_value |-> default]

\* variant: the environment is consulted before the mapping
PrecedenceEnvFirst(key, direct_val, default, type) ==
  IF direct_val # NoneV
  THEN [source |-> s_direct, final_value |-> direct_val]
  ELSE LET env_val == getenv(env_key(key))
       IN  IF Truthy(env_val)
           THEN [source |-> s_env_colon \o env_key(key),
                 final_value |-> _convert_type(env_val, type)]
           ELSE IF key \in DOMAIN config_dict
           THEN [source |-> s_config, final_value |-> config_dict[key]]
           ELSE [source |-> s_default, final_value |-> default]

\* variant: the mapping is searched for the key in any letter case
PrecedenceAnyCase(key, direct_val, default, type) ==
  IF direct_val # NoneV
  THEN [source |-> s_direct, final_value |-> direct_val]
  ELSE IF \E k \in DOMAIN config_dict : Upper(k) = Upper(key)
  THEN [source |-> s_config,
        final_value |-> config_dict[CHOOSE k \in DOMAIN config_dict : Upper(k) = Upper(key)]]
  ELSE LET env_val == getenv(env_key(key))
       IN  IF Truthy(env_val)
           THEN [source |-> s_env_colon \o env_key(key),
                 final_value |-> _convert_type(env_val, type)]
           ELSE [source |-> s_default, final_value |-> default]

\* the precedence chain of resolve: direct, config, env, default
Precedence(key, direct_val, default, type) ==
  IF direct_val # NoneV
  THEN [source |-> s_direct, final_value |-> direct_val]
  ELSE IF key \in DOMAIN config_dict
  THEN [source |-> s_config, final_value |-> config_dict[key]]
  ELSE LET env_val == getenv(env_key(key))
       IN  IF Truthy(env_val)
           THEN [source |-> s_env_colon \o env_key(key),
                 final_value |-> _convert_type(env_val, type)]
           ELSE [source |-> s_default, final_value |-> default]

\* variant: mask=True forces masking
should_mask_forced(key, mask) ==
  IF mask = BoolV(FALSE) THEN FALSE
  ELSE IF mask = BoolV(TRUE) THEN TRUE
  ELSE _is_sensitive(key)

should_mask(key, mask) == IF mask = BoolV(FALSE) THEN FALSE ELSE _is_sensitive(key)

display_value(key, mask, final_value) ==
  IF should_mask(key, mask) THEN _mask_value(final_value) ELSE final_value

\* the record resolve appends
LogRecord(key, source, value, type) ==
  [key |-> key, source |-> source, value |-> value, type |-> TypeName(type)]

\* variant: a record equal to one already in the log is not added again
AppendLogOnce(log, record) ==
  IF \E i \in 1..Len(log) : log[i] = record THEN log ELSE Append(log, record)

\* variant: the record is put at the front
AppendLogFront(log, record) == <<record>> \o log

\* self.resolution_log.append(record)
AppendLog(log, record) == Append(log, record)

\* variant: return display_value
ReturnedShown(final_value, shown) == shown

\* return final_value
Returned(final_value, shown) == final_value

\* f"{entry['value']:<20}": None and lists reject the format spec
FormatFails(value) == value.t \in {"NoneType", "list"}

----------------------------------------------------------------------------
(* State.  call and ret record the last call made on the resolver and what *)
(* it returned or raised; calls and failures count the resolve calls made, *)
(* and those that raised, since construction or the last clear_log.        *)

NoCall ==
  [op |-> "init", key |-> <<>>, direct_val |-> NoneV, default |-> NoneV,
   type |-> "str", mask |-> NoneV, arg |-> NoneV]

EmptyDict == [k \in {} |-> NoneV]

\* the mappings a resolver is constructed with
DictHostTimeout == (k_host :> StrV(v_localhost)) @@ (k_timeout :> IntV(30))

DictFalsy == (k_secret :> NoneV) @@ (k_host :> StrV(<<>>))

\* the constructor calls explored: <<config_dict, env_prefix, auto_uppercase>>
Constructions ==
  { <<DictHostTimeout, p_MYAPP, TRUE>>,
    <<DictFalsy, p_MYAPP, TRUE>>,
    <<EmptyDict, p_app, TRUE>>,
    <<EmptyDict, p_app, FALSE>>,
    <<DictHostTimeout, <<>>, TRUE>>,
    <<DictFalsy, p_app, FALSE>> }

\* the process environment
Environment ==
     (p_MYAPP \o Upper(k_secret)  :> v_topsecret123)
  @@ (p_MYAPP \o Upper(k_timeout) :> v_60)
  @@ (p_MYAPP \o Upper(k_host)    :> <<>>)
  @@ (p_app \o k_HOST             :> v_a_b)
  @@ (Upper(p_app) \o k_HOST      :> v_upper)
  @@ (p_app \o k_host             :> v_lower)
  @@ (p_app \o k_timeout          :> v_3_14)
  @@ (p_app \o k_secret           :> v_true)
  @@ (k_HOST                      :> v_example)
  @@ (Upper(k_secret)             :> v_Yes)

\* __init__(config_dict, env_prefix, auto_uppercase) for one of the
\* constructor calls cs; `config_dict or {}` keeps a non-empty mapping
ConstructedIn(cs, env) ==
  /\ \E c \in cs : /\ config_dict = (IF c[1] = EmptyDict THEN EmptyDict ELSE c[1])
                   /\ env_prefix = c[2]
                   /\ auto_uppercase = c[3]
  /\ resolution_log = <<>>
  /\ environ = env
  /\ calls = 0
  /\ failures = 0

Constructed(cs) == ConstructedIn(cs, Environment)

\* a resolver on which no call has been made yet
InitWith(cs) == Constructed(cs) /\ call = NoCall /\ ret = NoneV

Init == InitWith(Constructions)

----------------------------------------------------------------------------
(* Operations *)

\* variant: a key missing from the mapping is looked up in the environment
get_env_fallback(key) ==
  /\ call' = [NoCall EXCEPT !.op = "get", !.key = key]
  /\ ret' = IF key \in DOMAIN config_dict THEN config_dict[key] ELSE getenv(env_key(key))
  /\ UNCHANGED <<config_dict, env_prefix, auto_uppercase, resolution_log, environ, calls, failures>>

get(key) ==
  /\ call' = [NoCall EXCEPT !.op = "get", !.key = key]
  /\ ret' = IF key \in DOMAIN config_dict THEN config_dict[key] ELSE NoneV
  /\ UNCHANGED <<config_dict, env_prefix, auto_uppercase, resolution_log, environ, calls, failures>>

\* variant: a key the log already holds is answered from its latest record
resolve_remembering(key, direct_val, default, type, mask) ==
  LET seen  == {i \in 1..Len(resolution_log) : resolution_log[i].key = key}
      p     == Precedence(key, direct_val, default, type)
      shown == display_value(key, mask, p.final_value)
  IN  /\ call' = [NoCall EXCEPT !.op = "resolve", !.key = key, !.direct_val = direct_val,
                                !.default = default, !.type = type, !.mask = mask]
      /\ calls' = calls + 1
      /\ IF seen # {}
         THEN LET last == resolution_log[CHOOSE i \in seen : \A j \in seen : j <= i]
              IN  /\ resolution_log' = AppendLog(resolution_log, last)
                  /\ ret' = last.value
                  /\ UNCHANGED failures
         ELSE IF p.final_value.t = "raise"
         THEN /\ ret' = p.final_value
              /\ failures' = failures + 1
              /\ UNCHANGED resolution_log
         ELSE /\ resolution_log' =
                   AppendLog(resolution_log, LogRecord(key, p.source, shown, type))
              /\ ret' = Returned(p.final_value, shown)
              /\ UNCHANGED failures
      /\ UNCHANGED <<config_dict, env_prefix, auto_uppercase, environ>>

\* variant: the resolved value is stored in the mapping for later calls
resolve_caching(key, direct_val, default, type, mask) ==
  LET p     == Precedence(key, direct_val, default, type)
      shown == display_value(key, mask, p.final_value)
  IN  /\ call' = [NoCall EXCEPT !.op = "resolve", !.key = key, !.direct_val = direct_val,
                                !.default = default, !.type = type, !.mask = mask]
      /\ calls' = calls + 1
      /\ IF p.final_value.t = "raise"
         THEN /\ ret' = p.final_value
              /\ failures' = failures + 1
              /\ UNCHANGED <<resolution_log, config_dict>>
         ELSE /\ resolution_log' =
                   AppendLog(resolution_log, LogRecord(key, p.source, shown, type))
              /\ ret' = Returned(p.final_value, shown)
              /\ config_dict' = (key :> p.final_value) @@ config_dict
              /\ UNCHANGED failures
      /\ UNCHANGED <<env_prefix, auto_uppercase, environ>>

resolve(key, direct_val, default, type, mask) ==
  LET p     == Precedence(key, direct_val, default, type)
      shown == display_value(key, mask, p.final_value)
  IN  /\ call' = [NoCall EXCEPT !.op = "resolve", !.key = key, !.direct_val = direct_val,
                                !.default = default, !.type = type, !.mask = mask]
      /\ calls' = calls + 1
      /\ IF p.final_value.t = "raise"
         THEN /\ ret' = p.final_value
              /\ failures' = failures + 1
              /\ UNCHANGED resolution_log
         ELSE /\ resolution_log' =
                   AppendLog(resolution_log, LogRecord(key, p.source, shown, type))
              /\ ret' = Returned(p.final_value, shown)
              /\ UNCHANGED failures
      /\ UNCHANGED <<config_dict, env_prefix, auto_uppercase, environ>>

print_resolutions ==
  /\ call' = [NoCall EXCEPT !.op = "print_resolutions"]
  /\ ret' = IF \E i \in 1..Len(resolution_log) : FormatFails(resolution_log[i].value)
            THEN Raise("TypeError") ELSE NoneV
  /\ UNCHANGED <<config_dict, env_prefix, auto_uppercase, resolution_log, environ, calls, failures>>

\* variant: clearing runs the constructor's defaults again
clear_log_reset_all ==
  /\ call' = [NoCall EXCEPT !.op = "clear_log"]
  /\ resolution_log' = <<>>
  /\ config_dict' = EmptyDict
  /\ env_prefix' = <<>>
  /\ auto_uppercase' = TRUE
  /\ calls' = 0
  /\ failures' = 0
  /\ ret' = NoneV
  /\ UNCHANGED environ

clear_log ==
  /\ call' = [NoCall EXCEPT !.op = "clear_log"]
  /\ resolution_log' = <<>>
  /\ calls' = 0
  /\ failures' = 0
  /\ ret' = NoneV
  /\ UNCHANGED <<config_dict, env_prefix, auto_uppercase, environ>>

----------------------------------------------------------------------------
(* The resolver under arbitrary calls *)

Keys == {k_host, k_HOST, k_secret, k_timeout}

\* direct values a caller passes: falsy ones and a long string
Directs == {IntV(0), BoolV(FALSE), StrV(<<>>), StrV(v_secret123)}

Defaults == {NoneV, IntV(30)}

Masks == {NoneV, BoolV(TRUE), BoolV(FALSE)}

\* the resolve calls explored, <<key, direct_val, default, type, mask>>:
\* every call without a direct value, and calls with a direct value whose
\* target type disagrees with the value's own type
ResolveArgs ==
  (Keys \X {NoneV} \X Defaults \X Types \X Masks)
    \cup (Keys \X Directs \X {IntV(30)} \X {"int", "str", "list"} \X Masks)

Next ==
  \/ \E key \in Keys : get(key)
  \/ /\ calls < MaxCalls
     /\ \E a \in ResolveArgs : resolve(a[1], a[2], a[3], a[4], a[5])
  \/ print_resolutions
  \/ clear_log

Spec == Init /\ [][Next]_vars

----------------------------------------------------------------------------
(* The resolver under a few calls, with a longer log *)

LogConstructions ==
  { <<DictHostTimeout, p_MYAPP, TRUE>>, <<EmptyDict, p_app, FALSE>> }

LogArgs ==
  { <<k_secret,  NoneV,   NoneV,    "str",   NoneV>>,
    <<k_secret,  NoneV,   NoneV,    "str",   BoolV(FALSE)>>,
    <<k_secret,  NoneV,   NoneV,    "str",   BoolV(TRUE)>>,
    <<k_secret,  NoneV,   NoneV,    "int",   NoneV>>,
    <<k_host,    NoneV,   IntV(30), "str",   NoneV>>,
    <<k_timeout, IntV(0), IntV(30), "int",   NoneV>>,
    <<k_HOST,    NoneV,   IntV(30), "list",  BoolV(TRUE)>>,
    <<k_timeout, NoneV,   IntV(30), "float", NoneV>>,
    <<k_HOST,    NoneV,   NoneV,    "float", NoneV>> }

InitLog == InitWith(LogConstructions)

NextLog ==
  \/ \E key \in {k_host, k_secret} : get(key)
  \/ /\ calls < MaxHist
     /\ \E a \in LogArgs : resolve(a[1], a[2], a[3], a[4], a[5])
  \/ print_resolutions
  \/ clear_log

SpecLog == InitLog /\ [][NextLog]_vars

----------------------------------------------------------------------------
(* _mask_value and _is_sensitive called on their own *)

\* a call that has been set up and not made yet
Pending(c) == call = [c EXCEPT !.op = "pending"]

call_mask_value ==
  /\ call.op = "pending"
  /\ call' = [call EXCEPT !.op = "_mask_value"]
  /\ ret' = _mask_value(call.arg)
  /\ UNCHANGED <<config_dict, env_prefix, auto_uppercase, resolution_log, environ,
                 calls, failures>>

call_is_sensitive ==
  /\ call.op = "pending"
  /\ call' = [call EXCEPT !.op = "_is_sensitive"]
  /\ ret' = BoolV(_is_sensitive(call.key))
  /\ UNCHANGED <<config_dict, env_prefix, auto_uppercase, resolution_log, environ,
                 calls, failures>>

MaskInputs ==
  {NoneV}
    \cup {StrV(s) : s \in StringsUpTo({"a", "*"}, MaxStrLen)}
    \cup {StrV(<<"a","b">>), StrV(<<"a","b","c","d">>), StrV(<<"a","b","c","d","e">>),
          StrV(v_secret123), StrV(v_topsecret123)}
    \cup {IntV(0), IntV(3000), IntV(12345), IntV(0 - 1234),
          BoolV(TRUE), BoolV(FALSE),
          FloatV("fin", FALSE, 314, 0 - 2), FloatV("fin", FALSE, 3, 1),
          ListV(<<StrV(<<"a">>), StrV(<<"b">>)>>), ListV(<<>>)}

InitMask ==
  /\ Constructed({<<EmptyDict, <<>>, TRUE>>})
  /\ \E value \in MaskInputs : Pending([NoCall EXCEPT !.arg = value])
  /\ ret = NoneV

NextMask == call_mask_value

SpecMask == InitMask /\ [][NextMask]_vars

SensitiveInputs ==
  StringsUpTo({"k", "e", "y", "E"}, MaxKeyLen)
    \cup { <<"p","a","s","s","w","o","r","d">>, <<"P","A","S","S","W","O","R","D">>,
           k_secret, <<"S","E","C","R","E","T">>,
           <<"a","p","i","_","k","e","y">>, <<"t","o","k","e","n">>,
           <<"T","O","K","E","N">>, <<"p","r","i","v","a","t","e">>,
           <<"p","r","i","v","a","t","e","_","k","e","y">>,
           <<"a","u","t","h">>, <<"c","r","e","d","e","n","t","i","a","l">>,
           <<"c","e","r","t">>, <<"P","a","s","s">>, <<"m","y","_","A","p","i">>,
           <<"u","s","e","r","n","a","m","e">>, k_host, k_HOST,
           <<"p","o","r","t">>, <<"d","e","b","u","g">>, k_timeout,
           <<"p","a","s">>, <<"a","u","t">>, <<"c","e","r">>, <<"a","_","p","i">>,
           <<"s","e","c","r","e","_","t">> }

InitSensitive ==
  /\ Constructed({<<EmptyDict, <<>>, TRUE>>})
  /\ \E key \in SensitiveInputs : Pending([NoCall EXCEPT !.key = key])
  /\ ret = NoneV

NextSensitive == call_is_sensitive

SpecSensitive == InitSensitive /\ [][NextSensitive]_vars

----------------------------------------------------------------------------
(* The integration workflow of the tests: five resolve calls on one resolver *)

\* calls of the workflow explored since construction or the last clear_log
MaxScenario == 5

k_port == <<"p","o","r","t">>

k_debug == <<"d","e","b","u","g">>

v_0_0_0_0 == <<"0",".","0",".","0",".","0">>

ScenarioDict == (k_host :> StrV(v_localhost)) @@ (k_port :> IntV(3000))

ScenarioEnvironment ==
     (p_MYAPP \o Upper(k_debug)  :> v_true)
  @@ (p_MYAPP \o Upper(k_secret) :> v_topsecret123)

\* the five calls, in the order the workflow makes them
ScenarioScript ==
  << <<k_host,    NoneV,      StrV(v_0_0_0_0), "str",  NoneV>>,
     <<k_port,    IntV(8080), IntV(5000),      "int",  NoneV>>,
     <<k_debug,   NoneV,      BoolV(FALSE),    "bool", NoneV>>,
     <<k_secret,  NoneV,      StrV(<<>>),      "str",  NoneV>>,
     <<k_timeout, NoneV,      IntV(30),        "int",  NoneV>> >>

InitScenario ==
  /\ ConstructedIn({<<ScenarioDict, p_MYAPP, TRUE>>}, ScenarioEnvironment)
  /\ call = NoCall
  /\ ret = NoneV

\* the calls of the workflow, made in any order
NextScenario ==
  \/ /\ calls < MaxScenario
     /\ \E i \in 1..Len(ScenarioScript) :
          resolve(ScenarioScript[i][1], ScenarioScript[i][2], ScenarioScript[i][3],
                  ScenarioScript[i][4], ScenarioScript[i][5])
  \/ clear_log

SpecScenario == InitScenario /\ [][NextScenario]_vars

----------------------------------------------------------------------------
(* The "Precedence Hierarchy in Action" part of examples/getting_started.py *)

\* resolve calls made on the example's resolver (SpecExample)
MaxExample == 4

k_missing_key == <<"m","i","s","s","i","n","g","_","k","e","y">>

ExampleDict == (k_timeout :> IntV(30))

\* os.environ["MYAPP_TIMEOUT"] = "60"
ExampleEnvironment == (p_MYAPP \o Upper(k_timeout) :> v_60)

\* the example's resolve calls, <<key, direct_val, default, type, mask>>;
\* the first is made twice in the example
ExampleCalls ==
  { <<k_timeout,     NoneV,     IntV(10), "int", NoneV>>,
    <<k_timeout,     IntV(120), IntV(10), "int", NoneV>>,
    <<k_missing_key, NoneV,     IntV(5),  "int", NoneV>> }

InitExample ==
  /\ ConstructedIn({<<ExampleDict, p_MYAPP, TRUE>>}, ExampleEnvironment)
  /\ call = NoCall
  /\ ret = NoneV

NextExample ==
  \/ /\ calls < MaxExample
     /\ \E a \in ExampleCalls : resolve(a[1], a[2], a[3], a[4], a[5])
  \/ print_resolutions
  \/ clear_log

SpecExample == InitExample /\ [][NextExample]_vars

----------------------------------------------------------------------------
(* _convert_type called on its own *)

\* longest generated string handed to _convert_type (SpecConvert)
MaxConvLen == 3

call_convert_type ==
  /\ call.op = "pending"
  /\ call' = [call EXCEPT !.op = "_convert_type"]
  /\ ret' = _convert_type(call.arg, call.type)
  /\ UNCHANGED <<config_dict, env_prefix, auto_uppercase, resolution_log, environ,
                 calls, failures>>

ConvertInputs ==
  StringsUpTo({"y", "e", "s", "E", "1", ",", " "}, MaxConvLen)
    \cup { v_true, <<"T","r","u","e">>, <<"T","R","U","E">>, <<"Y","E","S">>, v_Yes,
           <<"f","a","l","s","e">>, <<"o","n">>, <<"0">>, <<" ","t","r","u","e">>,
           <<"a",",","b",",","c">>, <<"a",","," ","b">>, <<",","a",",",",","b",",">>,
           <<"4","2">>, <<"-","7">>, v_3_14, v_60, v_a_b, <<"a","b","c">> }

InitConvert ==
  /\ Constructed({<<EmptyDict, <<>>, TRUE>>})
  /\ \E value \in ConvertInputs, type \in Types :
       Pending([NoCall EXCEPT !.arg = StrV(value), !.type = type])
  /\ ret = NoneV

NextConvert == call_convert_type

SpecConvert == InitConvert /\ [][NextConvert]_vars

----------------------------------------------------------------------------
(* Properties *)

\* the record appended last
LastRecord == resolution_log[Len(resolution_log)]

\* the last call was a resolve that returned a value
ResolveReturned == call.op = "resolve" /\ ret.t # "raise"

\* the environment variable name the last call's key stands for
FullKey == env_prefix \o (IF auto_uppercase THEN Upper(call.key) ELSE call.key)

\* the environment holds a non-empty string under FullKey
EnvPresent == FullKey \in DOMAIN environ /\ environ[FullKey] # <<>>

\* C1: a resolve call with a direct value other than None returns exactly
\* that value, unconverted, and the record it appends has source "direct",
\* whatever the mapping, the environment and the target type.
C1_DirectWins ==
  (call.op = "resolve" /\ call.direct_val # NoneV) =>
     /\ ret = call.direct_val
     /\ Len(resolution_log) > 0
     /\ LastRecord.source = <<"d","i","r","e","c","t">>

\* a falsy direct value 0 with target str wins over a mapping entry and a
\* set environment variable
C1_Witness ==
  /\ call.op = "resolve" /\ call.direct_val = IntV(0) /\ call.type = "str"
  /\ call.key \in DOMAIN config_dict
  /\ EnvPresent
  /\ ret = IntV(0)
  /\ LastRecord.source = <<"d","i","r","e","c","t">>

\* C2: without a direct value, a key of the mapping resolves to the
\* mapping's value unmodified (falsy and None included, no conversion) with
\* source "config", whether or not the environment variable is set.
C2_ConfigSecond ==
  (call.op = "resolve" /\ call.direct_val = NoneV /\ call.key \in DOMAIN config_dict) =>
     /\ ret = config_dict[call.key]
     /\ Len(resolution_log) > 0
     /\ LastRecord.source = <<"c","o","n","f","i","g">>

\* the mapping holds None for the key, the environment variable is set and
\* the target is int: None is returned from the mapping
C2_Witness ==
  /\ call.op = "resolve" /\ call.direct_val = NoneV /\ call.type = "int"
  /\ call.key \in DOMAIN config_dict /\ config_dict[call.key] = NoneV
  /\ EnvPresent
  /\ ret = NoneV
  /\ LastRecord.source = <<"c","o","n","f","i","g">>

\* C3: without a direct value and a mapping entry, a non-empty environment
\* variable prefix + (upper-cased key iff auto_uppercase) resolves to the
\* conversion of its string to the target type; a conversion error leaves
\* the call as that error, and a returned call records source "env:<name>".
C3_EnvThird ==
  (/\ call.op = "resolve" /\ call.direct_val = NoneV
   /\ call.key \notin DOMAIN config_dict
   /\ EnvPresent) =>
     /\ ret = _convert_type(StrV(environ[FullKey]), call.type)
     /\ ret.t # "raise" =>
          /\ Len(resolution_log) > 0
          /\ LastRecord.source = <<"e","n","v",":">> \o FullKey

\* "host" under prefix "app_" with auto_uppercase reads app_HOST = "a,b"
\* (not APP_HOST) and converts it to the list ["a", "b"]
C3_Witness ==
  /\ call.op = "resolve" /\ call.direct_val = NoneV /\ call.type = "list"
  /\ call.key = <<"h","o","s","t">>
  /\ env_prefix = <<"a","p","p","_">> /\ auto_uppercase
  /\ ret = ListV(<<StrV(<<"a">>), StrV(<<"b">>)>>)
  /\ LastRecord.source = <<"e","n","v",":","a","p","p","_","H","O","S","T">>

\* C4: without a direct value and a mapping entry, an unset or empty
\* environment variable resolves to the default unmodified (no conversion)
\* with source "default".
C4_DefaultLast ==
  (/\ call.op = "resolve" /\ call.direct_val = NoneV
   /\ call.key \notin DOMAIN config_dict
   /\ ~EnvPresent) =>
     /\ ret = call.default
     /\ Len(resolution_log) > 0
     /\ LastRecord.source = <<"d","e","f","a","u","l","t">>

\* the environment variable is set to the empty string, the target is list
\* and the default 30 comes back as the integer 30
C4_Witness ==
  /\ call.op = "resolve" /\ call.direct_val = NoneV /\ call.type = "list"
  /\ call.key \notin DOMAIN config_dict
  /\ FullKey \in DOMAIN environ /\ environ[FullKey] = <<>>
  /\ call.default = IntV(30) /\ ret = IntV(30)
  /\ LastRecord.source = <<"d","e","f","a","u","l","t">>

\* C5: two resolve calls made one after the other that differ at most in
\* the mask argument return the same value (or raise the same error):
\* masking never reaches the returned value.
C5_MaskNotReturned ==
  [][ (/\ call.op = "resolve" /\ call'.op = "resolve"
       /\ call' = [call EXCEPT !.mask = call'.mask])
      => ret' = ret ]_vars

\* the sensitive key "secret" resolved twice in a row from the same source,
\* logged once masked and once not, and returned in full
C5_Witness ==
  /\ ResolveReturned
  /\ Len(resolution_log) >= 2
  /\ call.key = <<"s","e","c","r","e","t">>
  /\ LastRecord.key = resolution_log[Len(resolution_log) - 1].key
  /\ LastRecord.source = resolution_log[Len(resolution_log) - 1].source
  /\ LastRecord.type = resolution_log[Len(resolution_log) - 1].type
  /\ LastRecord.value # resolution_log[Len(resolution_log) - 1].value
  /\ ret = StrV(<<"t","o","p","s","e","c","r","e","t","1","2","3">>)

\* "secret" is the one sensitive key among the keys resolved
C6_SensitiveKey == call.key = <<"s","e","c","r","e","t">>

\* C6: the value in the record appended by resolve is the masked form of
\* the returned value exactly when mask is not False and the key is
\* sensitive, and the returned value itself in every other case.
C6_MaskedInLog ==
  ResolveReturned =>
     /\ Len(resolution_log) > 0
     /\ LastRecord.value =
          IF call.mask # BoolV(FALSE) /\ C6_SensitiveKey
          THEN _mask_value(ret) ELSE ret
     /\ (call.mask = BoolV(TRUE) /\ ~C6_SensitiveKey) => LastRecord.value = ret
     /\ call.mask = BoolV(FALSE) => LastRecord.value = ret

\* mask=False on the sensitive key "secret": the long environment value is
\* logged in full
C6_Witness ==
  /\ ResolveReturned /\ C6_SensitiveKey /\ call.mask = BoolV(FALSE)
  /\ ret = StrV(<<"t","o","p","s","e","c","r","e","t","1","2","3">>)
  /\ LastRecord.value = ret

\* C7: _mask_value gives None for None; for any other value with string
\* form s it gives "****" when len(s) <= 4, and otherwise a string as long
\* as s that keeps the first two and last two characters of s and has "*"
\* everywhere between.
C7_MaskShape ==
  call.op = "_mask_value" =>
     /\ call.arg = NoneV => ret = NoneV
     /\ call.arg # NoneV =>
          LET s == Str(call.arg)
              n == Len(s)
          IN  /\ ret.t = "str"
              /\ n <= 4 => ret.v = <<"*","*","*","*">>
              /\ n > 4 =>
                   /\ Len(ret.v) = n
                   /\ ret.v[1] = s[1] /\ ret.v[2] = s[2]
                   /\ ret.v[n - 1] = s[n - 1] /\ ret.v[n] = s[n]
                   /\ \A i \in 3..(n - 2) : ret.v[i] = "*"
     /\ call.arg = StrV(<<>>) => ret = StrV(<<"*","*","*","*">>)
     /\ call.arg = StrV(<<"a","b">>) => ret = StrV(<<"*","*","*","*">>)
     /\ call.arg = StrV(<<"a","b","c","d">>) => ret = StrV(<<"*","*","*","*">>)
     /\ call.arg = StrV(<<"a","b","c","d","e">>) => ret = StrV(<<"a","b","*","d","e">>)
     /\ call.arg = StrV(<<"s","e","c","r","e","t","1","2","3">>)
          => ret = StrV(<<"s","e","*","*","*","*","*","2","3">>)
     /\ call.arg = IntV(12345) => ret = StrV(<<"1","2","*","4","5">>)
     /\ call.arg = IntV(3000) => ret = StrV(<<"*","*","*","*">>)
     /\ call.arg = BoolV(FALSE) => ret = StrV(<<"F","a","*","s","e">>)

\* "secret123" masked to "se*****23"
C7_Witness ==
  /\ call.op = "_mask_value"
  /\ call.arg = StrV(<<"s","e","c","r","e","t","1","2","3">>)
  /\ ret = StrV(<<"s","e","*","*","*","*","*","2","3">>)

C8_Fragments ==
  { <<"A","P","I">>, <<"P","A","S","S","W","O","R","D">>, <<"S","E","C","R","E","T">>,
    <<"T","O","K","E","N">>, <<"K","E","Y">>, <<"P","A","S","S">>, <<"A","U","T","H">>,
    <<"C","R","E","D","E","N","T","I","A","L">>, <<"P","R","I","V","A","T","E">>,
    <<"C","E","R","T">> }

\* the upper-cased key of the last call holds fragment f from position i + 1
C8_OccursAt(f, i) ==
  /\ i + Len(f) <= Len(call.key)
  /\ \A j \in 1..Len(f) : UpperChar(call.key[i + j]) = f[j]

\* C8: _is_sensitive(key) is true exactly when the upper-cased key holds
\* one of the ten fragments as a substring; "password", "api_key" and
\* "private_key" are sensitive, "username", "host", "port", "debug" and
\* "timeout" are not.
C8_SensitiveIff ==
  call.op = "_is_sensitive" =>
     /\ ret \in {BoolV(TRUE), BoolV(FALSE)}
     /\ ret = BoolV(TRUE) <=>
          \E f \in C8_Fragments : \E i \in 0..Len(call.key) : C8_OccursAt(f, i)
     /\ call.key \in { <<"p","a","s","s","w","o","r","d">>,
                       <<"a","p","i","_","k","e","y">>,
                       <<"p","r","i","v","a","t","e","_","k","e","y">> }
          => ret = BoolV(TRUE)
     /\ call.key \in { <<"u","s","e","r","n","a","m","e">>, <<"h","o","s","t">>,
                       <<"p","o","r","t">>, <<"d","e","b","u","g">>,
                       <<"t","i","m","e","o","u","t">> }
          => ret = BoolV(FALSE)

\* the lower-case key "api_key" found sensitive
C8_Witness ==
  /\ call.op = "_is_sensitive"
  /\ call.key = <<"a","p","i","_","k","e","y">>
  /\ ret = BoolV(TRUE)

\* C9 as stated: the log is as long as the number of resolve calls made
\* since construction or the last clear_log.
C9_LengthIsCalls == Len(resolution_log) = calls

\* C9 as amended: the log is as long as the number of resolve calls that
\* returned since construction or the last clear_log; it is empty after
\* construction and after clear_log.
C9_LengthIsReturnedCalls ==
  /\ Len(resolution_log) = calls - failures
  /\ call.op \in {"init", "clear_log"} => Len(resolution_log) = 0

\* three resolve calls since the last reset, one of which raised
C9_Witness ==
  /\ call.op = "resolve"
  /\ calls = 3 /\ failures = 1
  /\ Len(resolution_log) = 2

\* C10: a resolve call that returns appends exactly one record at the end
\* of the log and leaves the earlier records as they were; the record's key
\* is the key as passed and its type is the name of the target type.
C10_AppendOnly ==
  [][ (call'.op = "resolve" /\ ret'.t # "raise") =>
        /\ Len(resolution_log') = Len(resolution_log) + 1
        /\ SubSeq(resolution_log', 1, Len(resolution_log)) = resolution_log
        /\ resolution_log'[Len(resolution_log')].key = call'.key
        /\ resolution_log'[Len(resolution_log')].type =
             CASE call'.type = "int"   -> <<"i","n","t">>
               [] call'.type = "float" -> <<"f","l","o","a","t">>
               [] call'.type = "bool"  -> <<"b","o","o","l">>
               [] call'.type = "list"  -> <<"l","i","s","t">>
               [] call'.type = "str"   -> <<"s","t","r">>
               [] call'.type = "dict"  -> <<"d","i","c","t">> ]_vars

\* a third record appended after two different ones: key "HOST" as passed
\* (the variable read is MYAPP_HOST), type "list" though the default 30 was
\* not converted
C10_Witness ==
  /\ ResolveReturned
  /\ Len(resolution_log) = 3
  /\ resolution_log[1] # resolution_log[2]
  /\ resolution_log[2] # resolution_log[3]
  /\ call.key = <<"H","O","S","T">>
  /\ LastRecord.key = <<"H","O","S","T">>
  /\ LastRecord.source = <<"d","e","f","a","u","l","t">>
  /\ LastRecord.type = <<"l","i","s","t">>
  /\ LastRecord.value = IntV(30)

\* the environment variable name a key stands for
C11_Name(key) == env_prefix \o (IF auto_uppercase THEN Upper(key) ELSE key)

\* characters an integer literal is made of, and those a float literal
\* (inf, infinity and nan included) is made of
C11_IntChars ==
  {"0","1","2","3","4","5","6","7","8","9","+","-","_"," ","\t","\n","\r"}

C11_FloatChars ==
  C11_IntChars \cup {".","e","E","i","n","f","t","y","a","I","N","F","T","Y","A"}

\* the string holds a character no literal of the target type can hold
C11_Unparseable(s, type) ==
  \/ type = "int" /\ \E i \in 1..Len(s) : s[i] \notin C11_IntChars
  \/ type = "float" /\ \E i \in 1..Len(s) : s[i] \notin C11_FloatChars

\* C11: when the environment-tier string cannot be parsed as the int or
\* float target, resolve raises the conversion error and leaves the resolver
\* as it was: no record is appended.
C11_FailureLeavesNoRecord ==
  [][ (/\ call'.op = "resolve" /\ call'.direct_val = NoneV
       /\ call'.key \notin DOMAIN config_dict
       /\ C11_Name(call'.key) \in DOMAIN environ
       /\ C11_Unparseable(environ[C11_Name(call'.key)], call'.type))
      => /\ ret' = Raise("ValueError")
         /\ resolution_log' = resolution_log
         /\ UNCHANGED <<config_dict, env_prefix, auto_uppercase, environ>> ]_vars

\* "HOST" read from app_HOST = "a,b" with target float raised, and the two
\* records logged before it are still the whole log
C11_Witness ==
  /\ call.op = "resolve" /\ call.type = "float"
  /\ call.key = <<"H","O","S","T">>
  /\ C11_Name(call.key) \in DOMAIN environ
  /\ environ[C11_Name(call.key)] = <<"a",",","b">>
  /\ ret = Raise("ValueError")
  /\ Len(resolution_log) = 2 /\ calls = 3 /\ failures = 1

\* what resolve returns (or raises) for the arguments a on a resolver with
\* mapping cd, prefix and case policy upper, in the environment env
C12_Result(cd, prefix, upper, env, a) ==
  LET name == prefix \o (IF upper THEN Upper(a[1]) ELSE a[1])
  IN  IF a[2] # NoneV THEN a[2]
      ELSE IF a[1] \in DOMAIN cd THEN cd[a[1]]
      ELSE IF name \in DOMAIN env /\ env[name] # <<>>
      THEN _convert_type(StrV(env[name]), a[4])
      ELSE a[3]

\* C12: clear_log empties the log and changes nothing else: the mapping,
\* env_prefix and auto_uppercase are as before, and every resolve call has
\* the result after clear_log that it had before.
C12_ClearOnlyLog ==
  [][ /\ call'.op = "clear_log" =>
           /\ resolution_log' = <<>>
           /\ UNCHANGED <<config_dict, env_prefix, auto_uppercase, environ>>
           /\ \A a \in LogArgs :
                C12_Result(config_dict', env_prefix', auto_uppercase', environ', a)
                  = C12_Result(config_dict, env_prefix, auto_uppercase, environ, a)
      /\ (call.op = "clear_log" /\ call'.op = "resolve") =>
           ret' = C12_Result(config_dict, env_prefix, auto_uppercase, environ,
                             <<call'.key, call'.direct_val, call'.default,
                               call'.type, call'.mask>>) ]_vars

\* the log cleared on a resolver that still holds its mapping and prefix
C12_Witness ==
  /\ call.op = "clear_log"
  /\ resolution_log = <<>> /\ calls = 0
  /\ config_dict = (<<"h","o","s","t">> :> StrV(<<"l","o","c","a","l","h","o","s","t">>))
                      @@ (<<"t","i","m","e","o","u","t">> :> IntV(30))
  /\ env_prefix = <<"M","Y","A","P","P","_">> /\ auto_uppercase

\* C13: get(key) returns the mapping's value for key, or None when the key
\* is not in the mapping, without reading the environment, and leaves the
\* log and the rest of the resolver unchanged.
C13_GetIsPure ==
  [][ call'.op = "get" =>
        /\ ret' = IF call'.key \in DOMAIN config_dict
                  THEN config_dict[call'.key] ELSE NoneV
        /\ UNCHANGED <<config_dict, env_prefix, auto_uppercase, resolution_log,
                       environ, calls, failures>> ]_vars

\* get of a key that is not in the mapping while its environment variable
\* is set: None, with the one logged record still there
C13_Witness ==
  /\ call.op = "get"
  /\ call.key \notin DOMAIN config_dict
  /\ EnvPresent
  /\ ret = NoneV
  /\ Len(resolution_log) = 1

\* C14: whatever is called (get, resolve that returns or raises,
\* print_resolutions, clear_log), the mapping, env_prefix and auto_uppercase
\* stay as constructed and the environment is not written.
C14_ConstructionFixed ==
  [][ UNCHANGED <<config_dict, env_prefix, auto_uppercase, environ>> ]_vars

\* a resolve call that returned from the environment tier, on a resolver
\* whose mapping still lacks the key
C14_Witness ==
  /\ ResolveReturned
  /\ call.key \notin DOMAIN config_dict
  /\ LastRecord.source = <<"e","n","v",":">> \o FullKey
  /\ environ[FullKey] = <<"t","o","p","s","e","c","r","e","t","1","2","3">>

\* the keys, returned values and sources of the workflow, call by call
C15_Keys ==
  << <<"h","o","s","t">>, <<"p","o","r","t">>, <<"d","e","b","u","g">>,
     <<"s","e","c","r","e","t">>, <<"t","i","m","e","o","u","t">> >>

C15_Values ==
  << StrV(<<"l","o","c","a","l","h","o","s","t">>), IntV(8080), BoolV(TRUE),
     StrV(<<"t","o","p","s","e","c","r","e","t","1","2","3">>), IntV(30) >>

C15_Sources ==
  << <<"c","o","n","f","i","g">>, <<"d","i","r","e","c","t">>,
     <<"e","n","v",":","M","Y","A","P","P","_","D","E","B","U","G">>,
     <<"e","n","v",":","M","Y","A","P","P","_","S","E","C","R","E","T">>,
     <<"d","e","f","a","u","l","t">> >>

\* the first n calls of the workflow have been made, in order, and nothing else
C15_Made(n) ==
  /\ call.op = "resolve" /\ call.key = C15_Keys[n]
  /\ calls = n /\ Len(resolution_log) = n
  /\ \A i \in 1..n : resolution_log[i].key = C15_Keys[i]

\* C15: in the integration workflow the five calls return "localhost", 8080,
\* True, "topsecret123", 30 with sources config, direct, env:MYAPP_DEBUG,
\* env:MYAPP_SECRET, default; the log then has five records and the one for
\* "secret" holds asterisks instead of "topsecret123".
C15_Workflow ==
  \A n \in 1..5 :
    C15_Made(n) =>
      /\ ret = C15_Values[n]
      /\ \A i \in 1..n : resolution_log[i].source = C15_Sources[i]
      /\ n = 5 =>
           /\ Len(resolution_log) = 5
           /\ resolution_log[4].value.t = "str"
           /\ \E j \in 1..Len(resolution_log[4].value.v) :
                resolution_log[4].value.v[j] = "*"
           /\ resolution_log[4].value # C15_Values[4]

\* the workflow run to its end
C15_Witness ==
  /\ C15_Made(5)
  /\ ret = IntV(30)
  /\ resolution_log[4].value =
       StrV(<<"t","o","*","*","*","*","*","*","*","*","2","3">>)

\* the words that mean true, and the upper-case form of their letters
C16_TrueWords == {<<"t","r","u","e">>, <<"1">>, <<"y","e","s">>}

C16_UpperOf ==
  {<<"t","T">>, <<"r","R">>, <<"u","U">>, <<"e","E">>, <<"y","Y">>, <<"s","S">>}

\* s is the word w up to the case of its letters
C16_SameWord(s, w) ==
  /\ Len(s) = Len(w)
  /\ \A i \in 1..Len(w) : s[i] = w[i] \/ <<w[i], s[i]>> \in C16_UpperOf

\* C16: conversion to bool never raises; it gives True exactly for "true",
\* "1" and "yes" in any letter case, and False for every other string.
C16_BoolTotal ==
  (call.op = "_convert_type" /\ call.type = "bool") =>
     /\ ret \in {BoolV(TRUE), BoolV(FALSE)}
     /\ ret = BoolV(TRUE) <=> \E w \in C16_TrueWords : C16_SameWord(call.arg.v, w)
     /\ call.arg.v \in {<<"T","r","u","e">>, <<"T","R","U","E">>, <<"Y","E","S">>}
          => ret = BoolV(TRUE)
     /\ call.arg.v \in {<<"f","a","l","s","e">>, <<"o","n">>, <<"0">>,
                        <<" ","t","r","u","e">>}
          => ret = BoolV(FALSE)

\* "YES" converted to True
C16_Witness ==
  /\ call.op = "_convert_type" /\ call.type = "bool"
  /\ call.arg = StrV(<<"Y","E","S">>)
  /\ ret = BoolV(TRUE)

\* the pieces put together again with "," between them
RECURSIVE C17_Joined(_)
C17_Joined(l) ==
  IF Len(l) = 0 THEN <<>>
  ELSE IF Len(l) = 1 THEN l[1].v
  ELSE l[1].v \o <<",">> \o C17_Joined(Tail(l))

\* C17: conversion to list never raises and splits the string on every ",":
\* one more piece than there are commas, each a string without a comma,
\* untrimmed, which joined with "," give the string back; the empty string
\* gives [""].
C17_ListSplit ==
  (call.op = "_convert_type" /\ call.type = "list") =>
     /\ ret.t = "list"
     /\ Len(ret.v) = Cardinality({i \in 1..Len(call.arg.v) : call.arg.v[i] = ","}) + 1
     /\ \A i \in 1..Len(ret.v) :
          /\ ret.v[i].t = "str"
          /\ \A j \in 1..Len(ret.v[i].v) : ret.v[i].v[j] # ","
     /\ C17_Joined(ret.v) = call.arg.v
     /\ call.arg.v = <<>> => ret = ListV(<<StrV(<<>>)>>)
     /\ call.arg.v = <<"a",",","b",",","c">>
          => ret = ListV(<<StrV(<<"a">>), StrV(<<"b">>), StrV(<<"c">>)>>)

\* ",a,,b," split into five pieces, three of them empty
C17_Witness ==
  /\ call.op = "_convert_type" /\ call.type = "list"
  /\ call.arg = StrV(<<",","a",",",",","b",",">>)
  /\ ret = ListV(<<StrV(<<>>), StrV(<<"a">>), StrV(<<>>), StrV(<<"b">>), StrV(<<>>)>>)

\* resolve("timeout", default=10, type=int), as the example makes it twice
C18_Call ==
  [NoCall EXCEPT !.op = "resolve", !.key = k_timeout, !.default = IntV(10),
                 !.type = "int"]

\* the example's first two calls: the step from the state after the first
\* call to the state after the second, identical one
C18_SecondCall ==
  /\ call = C18_Call /\ calls = 1
  /\ call' = C18_Call /\ calls' = 2

C19_OtherTypePassesThrough ==
  ( /\ call.op = "resolve"
    /\ call.direct_val = NoneV
    /\ call.key \notin DOMAIN config_dict
    /\ EnvPresent
    /\ call.type \notin {"int", "float", "bool", "list"} ) =>
     /\ ret = StrV(environ[FullKey])
     /\ Len(resolution_log) = calls - failures
     /\ Len(resolution_log) >= 1
     /\ LastRecord.key = call.key
     /\ LastRecord.type = call.type
     /\ LastRecord.source = s_env_colon \o FullKey

\* "a,b" resolved with a type the code does not know
C19_Witness ==
  /\ call.op = "resolve" /\ call.type = "dict"
  /\ call.direct_val = NoneV
  /\ ret = StrV(v_a_b)
  /\ Len(resolution_log) >= 1
  /\ LastRecord.type = "dict"
  /\ LastRecord.source = s_env_colon \o p_app \o k_HOST

\* the mapping holds the key of the last call in another letter case only
C20_OtherCaseOnly ==
  /\ call.key \notin DOMAIN config_dict
  /\ \E k \in DOMAIN config_dict : Upper(k) = Upper(call.key)

\* C20: with auto_uppercase on, a key the mapping holds only in another
\* letter case skips the config tier: the value comes from the variable
\* prefix + upper-cased key if that is set and non-empty, else from the
\* default.
C20_MappingCaseSensitive ==
  ( /\ call.op = "resolve"
    /\ call.direct_val = NoneV
    /\ auto_uppercase
    /\ C20_OtherCaseOnly ) =>
     IF env_prefix \o Upper(call.key) \in DOMAIN environ
          /\ environ[env_prefix \o Upper(call.key)] # <<>>
     THEN /\ ret = _convert_type(StrV(environ[env_prefix \o Upper(call.key)]), call.type)
          /\ ret.t # "raise" =>
               LastRecord.source = s_env_colon \o env_prefix \o Upper(call.key)
     ELSE /\ ret = call.default
          /\ LastRecord.source = s_default
          /\ LastRecord.key = call.key

\* "HOST" resolved on a resolver whose mapping holds "host"
C20_Witness ==
  /\ call.op = "resolve" /\ call.key = k_HOST /\ call.type = "str"
  /\ call.direct_val = NoneV
  /\ auto_uppercase
  /\ k_host \in DOMAIN config_dict /\ config_dict[k_host] = StrV(v_localhost)
  /\ ret = StrV(v_example)
  /\ LastRecord.source = s_env_colon \o k_HOST

\* the tier the arguments a are resolved from on a resolver with mapping cd,
\* prefix and case policy upper, in the environment env
C21_Source(cd, prefix, upper, env, a) ==
  LET name == prefix \o (IF upper THEN Upper(a[1]) ELSE a[1])
  IN  IF a[2] # NoneV THEN s_direct
      ELSE IF a[1] \in DOMAIN cd THEN s_config
      ELSE IF name \in DOMAIN env /\ env[name] # <<>> THEN s_env_colon \o name
      ELSE s_default

\* the record a call with the arguments a appends when its result is value;
\* like C12_Result, a function of the resolver, the environment and the
\* arguments alone
C21_Record(cd, prefix, upper, env, a, value) ==
  [key    |-> a[1],
   source |-> C21_Source(cd, prefix, upper, env, a),
   value  |-> IF a[5] # BoolV(FALSE) /\ _is_sensitive(a[1])
              THEN _mask_value(value) ELSE value,
   type   |-> TypeName(a[4])]

\* C21: resolve is history-independent. Whatever the log holds and whatever
\* calls were made before, a resolve call returns (or raises) what its
\* arguments, the mapping and the environment alone determine, and appends
\* the record they alone determine (none when it raises); the same call made
\* again right after gives the same result and an equal record.
C21_HistoryIndependent ==
  [][ call'.op = "resolve" =>
        /\ ret' = C12_Result(config_dict, env_prefix, auto_uppercase, environ,
                             <<call'.key, call'.direct_val, call'.default,
                               call'.type, call'.mask>>)
        /\ IF ret'.t = "raise"
           THEN resolution_log' = resolution_log
           ELSE resolution_log' =
                  Append(resolution_log,
                         C21_Record(config_dict, env_prefix, auto_uppercase, environ,
                                    <<call'.key, call'.direct_val, call'.default,
                                      call'.type, call'.mask>>, ret'))
        /\ (call.op = "resolve" /\ call' = call) =>
              /\ ret' = ret
              /\ ret.t # "raise" =>
                   /\ Len(resolution_log') = Len(resolution_log) + 1
                   /\ resolution_log'[Len(resolution_log')]
                        = resolution_log[Len(resolution_log)]
    ]_vars

\* resolve("secret") made three times in a row on a growing log: three equal
\* records and the same value returned
C21_Witness ==
  /\ call.op = "resolve" /\ call.key = k_secret /\ call.mask = NoneV
  /\ call.type = "str"
  /\ calls = 3 /\ failures = 0
  /\ Len(resolution_log) = 3
  /\ resolution_log[1] = resolution_log[2]
  /\ resolution_log[2] = resolution_log[3]
  /\ resolution_log[3].source = s_env_colon \o p_MYAPP \o Upper(k_secret)
  /\ ret = StrV(v_topsecret123)

====
